---- MODULE Spec2Model ----
(***************************************************************************)
(* Model of the price-triggered purchase workflow of flip-message-agent:   *)
(*   PriceMonitor  (src/shopify-agent.js, lines 171-317)                   *)
(*   ShopifyAgent  (src/shopify-agent.js, lines 9-161)                     *)
(* and of the chat side that drives it:                                    *)
(*   AIChatHandler.handleIncomingMessage (src/unnamed/part_001)            *)
(*   SmartMessageListener (src/smart_listener.js)                          *)
(*   ConversationStore and bookUberRide (src/unnamed/part_000)             *)
(*                                                                         *)
(* JavaScript runs one callback at a time; an async function runs          *)
(* atomically from one await to the next.  Every action below is one such  *)
(* run-to-next-await segment of a handler.  External services (PriceFeed,  *)
(* the task service, the iMessage transport) answer nondeterministically.  *)
(***************************************************************************)
EXTENDS Integers, Sequences, FiniteSets, Bags, TLC

\* ------------------------------------------------------------------ bounds
MaxSessions == 2   \* session ids PriceFeed hands out in one run
MaxTicks    == 2   \* checkSessions invocations that may be in flight at once
MaxPending  == 1   \* startMonitoring calls that may await PriceFeed at once
MaxTimers   == 2   \* interval timers the runtime can hold at once

\* ------------------------------------------------------- JavaScript values
\* A JS value is [type, repr]; a number is named by its literal.
JsNum(lit) == [type |-> "number", repr |-> lit]
JsStr(s)   == [type |-> "string", repr |-> s]

NumericLiterals == {"2500", "Infinity"}

\* Number(x): a number is itself; a string parses to a number or to NaN.
ToNumber(v) ==
    IF v.type = "number" THEN v.repr
    ELSE IF v.repr \in NumericLiterals THEN v.repr
    ELSE "NaN"

\* Number.isFinite
IsFinite(n) == n \notin {"NaN", "Infinity", "-Infinity"}

\* JSON.stringify of a number: NaN and the infinities serialise as null.
JsonNumber(n) == IF IsFinite(n) THEN n ELSE "null"

\* ------------------------------------------------------------------ inputs
\* The argument tuples startMonitoring is called with.
Requests ==
    { [symbol |-> "ETH/USD", threshold |-> JsNum("2500"),
       userHandle |-> "u1", productUrl |-> "shop/jacket", size |-> "Medium"],
      [symbol |-> "BTC/USD", threshold |-> JsNum("Infinity"),
       userHandle |-> "u2", productUrl |-> "shop/shoes", size |-> "US 10"] }

\* Answers of POST /api/monitor/start.
RegResponses == {"ok", "noSessionId", "noBody", "httpError"}

\* Answers of GET /api/monitor/{id}.
StatusResponses == {"below", "notBelow", "noData", "noBody", "notFound", "httpError"}

\* Answers of POST /api/monitor/{id}/stop.
StopResponses == {"ok", "httpError"}

SessionIds == 1..MaxSessions
TimerIds   == 1..MaxTimers
NoTimer    == 0
NoSession  == 0

NoData == [symbol |-> "", threshold |-> JsStr(""), userHandle |-> "",
           productUrl |-> "", size |-> ""]

\* ------------------------------------------------------------------- state
VARIABLES
    activeSessions,  \* PriceMonitor.activeSessions: session id -> stored record
    isPolling,       \* PriceMonitor.isPolling
    pollInterval,    \* PriceMonitor.pollInterval: a timer id, or NoTimer (null)
    timers,          \* interval timers alive in the runtime
    nextId,          \* number of session ids PriceFeed has handed out
    pendingStarts,   \* startMonitoring calls awaiting POST /start
    ticks,           \* bag of checkSessions invocations in flight: [pc, sid, data]
    dispatched,      \* sessions purchaseProduct has been called for
    ev,              \* the last segment that ran, with its effects in order
    privateKey,      \* ShopifyAgent.privateKey ("" when the variable is unset)
    agent,           \* the purchaseProduct call: [pc, userHandle, i, lastProgressCount]
    requests,        \* status requests (axios.get) the call has issued
    outcome,         \* how the call ended: [state, error, data]
    inspections,     \* per progress index: times forEach visited it (2: twice or more)
    currentMessageHandle, \* global.currentMessageHandle (NoHandle is null)
    chats,           \* handleIncomingMessage invocations, by incoming message
    listener,        \* SmartMessageListener: [enabled, aiAvailable, whitelist, blacklist]
    conversations,   \* ConversationStore documents: handle -> stored message list
    addCalls,        \* addMessage calls in flight: [handle, message, pc, messages]
    added,           \* the addMessage calls made so far: the handle of each, in order
    ride             \* the bookUberRide call: [pc, i, observed, success]

monitorVars == <<activeSessions, isPolling, pollInterval, timers, nextId,
                 pendingStarts, ticks, dispatched>>

agentVars == <<privateKey, agent, requests, outcome, inspections>>

chatVars == <<currentMessageHandle, chats, listener, conversations, addCalls,
              added, ride>>

vars == <<monitorVars, agentVars, chatVars, ev>>

\* An invocation that has returned (it is no longer in the bag).
\* `known` is history, kept by SpecSnapshot only: the number of sessions
\* registered so far when the invocation began (a session with a higher id was
\* registered during it).
IdleTick == [pc |-> "idle", sid |-> NoSession, data |-> NoData, known |-> 0]

\* One observable effect of a segment: what was done, for which session, to
\* which recipient, with which arguments, and whether the transport took it.
Effect(kind, sid, to, arg, ok) ==
    [kind |-> kind, sid |-> sid, to |-> to, arg |-> arg, ok |-> ok]

\* The segment that ran last: the operation, the session, the external
\* answer it consumed, how the call ended ("pending" while it awaits,
\* "resolved", "rejected") and its effects in program order.
Event(op, sid, resp, result, effects) ==
    [op |-> op, sid |-> sid, resp |-> resp, result |-> result,
     effects |-> effects]

MaxSteps == 2      \* entries a served progress list may hold

MonitorInit ==
    /\ activeSessions = [s \in {} |-> NoData]
    /\ isPolling = FALSE
    /\ pollInterval = NoTimer
    /\ timers = {}
    /\ nextId = 0
    /\ pendingStarts = {}
    /\ ticks = EmptyBag
    /\ dispatched = {}
    /\ ev = Event("init", NoSession, "", "", << >>)

\* No purchaseProduct call has been made.
AgentIdle == [pc |-> "idle", userHandle |-> "", i |-> 0, lastProgressCount |-> 0]
NoOutcome == [state |-> "none", error |-> "", data |-> ""]

AgentInit ==
    /\ agent = AgentIdle
    /\ requests = 0
    /\ outcome = NoOutcome
    /\ inspections = [k \in 1..MaxSteps |-> 0]

MaxMessages == 2   \* incoming messages handled in one run

\* Handles messages arrive from; NoHandle stands for null.
ChatHandles == {"u1", "u2"}
NoHandle == ""

\* No handleIncomingMessage invocation has been made for the message.
NoChat == [pc |-> "none", handle |-> NoHandle, calls |-> {}, text |-> << >>,
           pending |-> << >>, sent |-> << >>, threw |-> FALSE]

\* A handle list of the listener: null, or an array (read with includes only).
NullList == [isNull |-> TRUE, items |-> {}]
List(S)  == [isNull |-> FALSE, items |-> S]

\* new SmartMessageListener() with default options and a working AI handler.
DefaultListener == [enabled |-> TRUE, aiAvailable |-> TRUE,
                    whitelist |-> NullList, blacklist |-> List({})]

\* No bookUberRide call has been made.
NoRide == [pc |-> "idle", i |-> 0, observed |-> FALSE, success |-> "none"]

ChatInit ==
    /\ currentMessageHandle = NoHandle
    /\ chats = [m \in 1..MaxMessages |-> NoChat]
    /\ listener = DefaultListener
    /\ conversations = [h \in ChatHandles |-> << >>]
    /\ addCalls = {}
    /\ added = << >>
    /\ ride = NoRide

Init ==
    /\ MonitorInit
    /\ AgentInit
    /\ privateKey = "0xkey"
    /\ ChatInit

\* ------------------------------------------------------------ Map helpers
\* Mutant: the registry is replaced by the new entry.
MapSet_Replace(map, id, rec) == [s \in {id} |-> rec]

\* Map.prototype.set with a key not yet present, and Map.prototype.delete.
MapSet(map, id, rec) ==
    [s \in DOMAIN map \cup {id} |-> IF s = id THEN rec ELSE map[s]]

MapDelete(map, id) == [s \in DOMAIN map \ {id} |-> map[s]]

\* PriceFeed's ids are opaque and unique; the model names a session by the
\* order in which it entered the Map, so id order is the Map's insertion order.
\* A Map iterator is live: after the entry `after` it yields the next entry
\* still (or newly) in the Map, and NoSession when there is none.
NextSession(map, after) ==
    LET later == {s \in DOMAIN map : s > after}
    IN  IF later = {} THEN NoSession
        ELSE CHOOSE s \in later : \A r \in later : s <= r

\* The for-of loop of checkSessions moving past entry `after`: the next entry
\* is destructured into [sessionId, data] and its status query is issued, or
\* the loop and the invocation end.
LoopFrom(map, after) ==
    LET s == NextSession(map, after)
    IN  IF s = NoSession THEN IdleTick
        ELSE [pc |-> "get", sid |-> s, data |-> map[s], known |-> 0]

\* Mutant: the loop ends at the first entry registered after the invocation
\* began (it iterates a copy of the Map taken at its start).
Later_SnapshotOnly(tk, new) ==
    IF new.pc = "idle" \/ new.sid > tk.known THEN IdleTick
    ELSE [new EXCEPT !.known = tk.known]

\* The invocation `tk` after its loop moved on to `new`.
Later(tk, new) == IF new.pc = "idle" THEN new ELSE [new EXCEPT !.known = tk.known]

TickResult(tick) == IF tick.pc = "idle" THEN "resolved" ELSE "pending"

\* The bag of invocations after one of them moved from `old` to `new`.
Moved(old, new) ==
    LET rest == ticks (-) SetToBag({old})
    IN  IF new.pc = "idle" THEN rest ELSE rest (+) SetToBag({new})

\* ------------------------------------------------- startPolling / stopPolling
FreeTimer == CHOOSE i \in TimerIds \ timers : \A j \in TimerIds \ timers : i <= j

\* startPolling without its isPolling guard.
DoStartPolling_NoGuard ==
    /\ timers # TimerIds
    /\ isPolling' = TRUE
    /\ pollInterval' = FreeTimer
    /\ timers' = timers \cup {FreeTimer}

\* The body of startPolling: a no-op when already polling, else setInterval.
DoStartPolling ==
    IF isPolling
    THEN UNCHANGED <<isPolling, pollInterval, timers>>
    ELSE /\ timers # TimerIds
         /\ isPolling' = TRUE
         /\ pollInterval' = FreeTimer
         /\ timers' = timers \cup {FreeTimer}

StartPolling ==
    /\ DoStartPolling
    /\ ev' = Event("startPolling", NoSession,
                   IF isPolling THEN "alreadyRunning" ELSE "started", "resolved", << >>)
    /\ UNCHANGED <<activeSessions, nextId, pendingStarts, ticks, dispatched>>
    /\ UNCHANGED <<agentVars, chatVars>>

\* Mutant: stopPolling forgets the timer without clearing it.
DoStopPolling_NoClear ==
    /\ timers' = timers
    /\ pollInterval' = NoTimer
    /\ isPolling' = FALSE

\* The body of stopPolling: clearInterval when a timer is held, then the flag.
DoStopPolling ==
    /\ IF pollInterval # NoTimer
       THEN /\ timers' = timers \ {pollInterval}
            /\ pollInterval' = NoTimer
       ELSE UNCHANGED <<timers, pollInterval>>
    /\ isPolling' = FALSE

StopPolling ==
    /\ DoStopPolling
    /\ ev' = Event("stopPolling", NoSession,
                   IF isPolling THEN "stopped" ELSE "notRunning", "resolved", << >>)
    /\ UNCHANGED <<activeSessions, nextId, pendingStarts, ticks, dispatched>>
    /\ UNCHANGED <<agentVars, chatVars>>

\* ------------------------------------------------------------ startMonitoring
\* startMonitoring up to its await: the POST to /api/monitor/start is sent
\* with threshold: Number(threshold), serialised as JSON.
\* Calls in flight are told apart by their arguments, so at most one call per
\* argument tuple awaits at a time.
StartMonitoringCall(req) ==
    /\ Cardinality(pendingStarts) < MaxPending
    /\ req \notin pendingStarts
    /\ pendingStarts' = pendingStarts \cup {req}
    /\ ev' = Event("startMonitoring", NoSession, "", "pending",
                   << Effect("post", NoSession, "",
                             <<req.symbol, JsonNumber(ToNumber(req.threshold))>>,
                             TRUE) >>)
    /\ UNCHANGED <<activeSessions, isPolling, pollInterval, timers, nextId,
                   ticks, dispatched>>
    /\ UNCHANGED <<agentVars, chatVars>>

\* Registration is taken as failed unless a session_id came back.
\* Mutant: the missing-id check is dropped.
RegistrationStored_NoIdCheck(resp) == resp \in {"ok", "noSessionId"}

\* Whether the answer of POST /start gets past the await, the destructuring
\* of response.data and the session_id check.
RegistrationStored(resp) == resp = "ok"

\* Mutant: PriceFeed hands out an id it has used before.
NewSessionId_Reused == CHOOSE s \in SessionIds : \A t \in SessionIds : s <= t

\* The session_id of a successful answer: PriceFeed's ids are unique, and the
\* model numbers them in the order they are handed out.
NewSessionId == nextId + 1

\* startMonitoring from the answer of the POST to its end.
StartMonitoringDone(req, resp) ==
    /\ req \in pendingStarts
    /\ pendingStarts' = pendingStarts \ {req}
    /\ IF RegistrationStored(resp)
       THEN /\ nextId < MaxSessions
            /\ nextId' = nextId + 1
            /\ activeSessions' = MapSet(activeSessions, NewSessionId, req)
            /\ DoStartPolling
            /\ ev' = Event("startMonitoring.done", NewSessionId, resp, "resolved",
                           << Effect("set", NewSessionId, req.userHandle,
                                     <<req.productUrl, req.size>>, TRUE) >>)
       ELSE /\ ev' = Event("startMonitoring.done", NoSession, resp, "rejected", << >>)
            /\ UNCHANGED <<activeSessions, isPolling, pollInterval, timers, nextId>>
    /\ UNCHANGED <<ticks, dispatched>>
    /\ UNCHANGED <<agentVars, chatVars>>

\* ---------------------------------------------------------------- checkSessions
FeedPrice == "2400"

\* The interval timer fires and its callback calls checkSessions, which runs
\* to its first await: it returns at once on an empty registry, else starts
\* the for-of loop and issues the first status query.
CheckSessions(tm, known) ==
    /\ tm \in timers
    /\ BagCardinality(ticks) < MaxTicks
    /\ LET tick == Later([IdleTick EXCEPT !.known = known],
                          LoopFrom(activeSessions, NoSession))
       IN  /\ ticks' = Moved(IdleTick, tick)
           /\ ev' = Event("checkSessions", tick.sid, "", TickResult(tick), << >>)
    /\ UNCHANGED <<activeSessions, isPolling, pollInterval, timers, nextId,
                   pendingStarts, dispatched>>
    /\ UNCHANGED <<agentVars, chatVars>>

TimerFire(tm) == CheckSessions(tm, 0)

\* Mutant: the catch block removes nothing.
AfterStatusError_NoCleanup(map, sid, resp) == map

\* Mutant: the catch block removes the session whatever the error.
AfterStatusError_DeleteAlways(map, sid, resp) == MapDelete(map, sid)

\* The catch block of checkSessions: a 404 removes the session, any other
\* error leaves the registry alone.
AfterStatusError(map, sid, resp) ==
    IF resp = "notFound" THEN MapDelete(map, sid) ELSE map

\* Mutant: an error ends the loop (no try/catch inside the for-of).
ContinueAfterError_Abort(map, sid) == IdleTick

\* After the catch block the for-of loop goes on with the next entry.
ContinueAfterError(map, sid) == LoopFrom(map, sid)

\* Mutant: sendNotification without its try/catch.
SendNotificationThrows_NoCatch(delivered) == ~delivered

\* Whether sendNotification throws to checkSessions: its body is one
\* try/catch that logs a failed osascript call.
SendNotificationThrows(delivered) == FALSE

\* The answer of GET /api/monitor/{id} arrives and the invocation `tk` runs to
\* its next await.  `delivered`: whether osascript took the price alert.
StatusResponse(tk, resp, delivered) ==
    LET sid  == tk.sid
        data == tk.data
    IN
    /\ tk \in BagToSet(ticks)
    /\ tk.pc = "get"
    /\ CASE resp = "below" /\ SendNotificationThrows(delivered) ->
              \* the alert threw inside the try: the catch block, no 404
              /\ LET new == Later(tk, ContinueAfterError(activeSessions, sid))
                 IN  /\ ticks' = Moved(tk, new)
                     /\ ev' = Event("checkSessions.status", sid, resp, TickResult(new),
                            << Effect("notify", sid, data.userHandle,
                                      <<data.symbol, FeedPrice, data.threshold.repr>>,
                                      delivered) >>)
              /\ UNCHANGED <<activeSessions, dispatched>>
         [] resp = "below" /\ ~SendNotificationThrows(delivered) ->
              \* sendNotification, purchaseProduct (not awaited), stopSession
              \* up to its await of the stop POST
              /\ dispatched' = dispatched \cup {sid}
              /\ ticks' = Moved(tk, [tk EXCEPT !.pc = "stop"])
              /\ ev' = Event("checkSessions.status", sid, resp, "pending",
                     << Effect("notify", sid, data.userHandle,
                               <<data.symbol, FeedPrice, data.threshold.repr>>, delivered),
                        Effect("dispatch", sid, data.userHandle,
                               <<data.productUrl, data.size, data.userHandle>>, TRUE),
                        Effect("stopPost", sid, "", << >>, TRUE) >>)
              /\ UNCHANGED activeSessions
         [] resp \in {"notBelow", "noData"} ->
              /\ delivered
              /\ LET new == Later(tk, LoopFrom(activeSessions, sid))
                 IN  /\ ticks' = Moved(tk, new)
                     /\ ev' = Event("checkSessions.status", sid, resp,
                                    TickResult(new), << >>)
              /\ UNCHANGED <<activeSessions, dispatched>>
         [] OTHER ->
              \* axios rejected, or response.data was undefined: the catch block
              /\ delivered
              /\ activeSessions' = AfterStatusError(activeSessions, sid, resp)
              /\ LET new == Later(tk, ContinueAfterError(activeSessions', sid))
                 IN  /\ ticks' = Moved(tk, new)
                     /\ ev' = Event("checkSessions.status", sid, resp,
                                    TickResult(new),
                                    IF activeSessions' # activeSessions
                                    THEN << Effect("delete", sid, "", << >>, TRUE) >>
                                    ELSE << >>)
              /\ UNCHANGED dispatched
    /\ UNCHANGED <<isPolling, pollInterval, timers, nextId, pendingStarts>>
    /\ UNCHANGED <<agentVars, chatVars>>

\* Mutant: the catch block of stopSession does not remove the session.
AfterStop_KeepOnError(map, sid, resp) ==
    IF resp = "ok" THEN MapDelete(map, sid) ELSE map

\* stopSession after its await: the session is deleted on both paths.
AfterStop(map, sid, resp) == MapDelete(map, sid)

\* The answer of POST /api/monitor/{id}/stop arrives: stopSession finishes
\* and the for-of loop goes on.
StopResponse(tk, resp) ==
    LET sid == tk.sid
    IN
    /\ tk \in BagToSet(ticks)
    /\ tk.pc = "stop"
    /\ activeSessions' = AfterStop(activeSessions, sid, resp)
    /\ LET new == Later(tk, LoopFrom(activeSessions', sid))
       IN  /\ ticks' = Moved(tk, new)
           /\ ev' = Event("checkSessions.stopped", sid, resp, TickResult(new),
                     IF activeSessions' # activeSessions
                     THEN << Effect("delete", sid, "", << >>, TRUE) >>
                     ELSE << >>)
    /\ UNCHANGED <<isPolling, pollInterval, timers, nextId, pendingStarts, dispatched>>
    /\ UNCHANGED <<agentVars, chatVars>>

\* Mutant: the dispatched promise has no .catch handler.
RejectionCaught_NoHandler == FALSE

\* Whether a rejection of the dispatched purchaseProduct promise is handled:
\* the call is followed by .catch(err => console.error(...)).
RejectionCaught == TRUE

\* A purchaseProduct promise dispatched by a tick settles.  The monitor keeps
\* no handle on it: a rejection only reaches the .catch that logs, so the
\* settlement touches no monitor state.  The agent's own steps are the
\* subject of SpecPurchase.
PurchaseSettle(sid, ok) ==
    /\ sid \in dispatched
    /\ ev' = Event("purchaseProduct.settled", sid, "",
                   IF ok THEN "resolved" ELSE "rejected", << >>)
    /\ IF ok \/ RejectionCaught
       THEN UNCHANGED <<timers, ticks>>
       ELSE \* an unhandled rejection ends the Node process
            timers' = {} /\ ticks' = EmptyBag
    /\ UNCHANGED <<activeSessions, isPolling, pollInterval, nextId,
                   pendingStarts, dispatched>>
    /\ UNCHANGED <<agentVars, chatVars>>

MonitorNext ==
    \/ StartPolling
    \/ StopPolling
    \/ \E req \in Requests : StartMonitoringCall(req)
    \/ \E req \in Requests, resp \in RegResponses : StartMonitoringDone(req, resp)
    \/ \E tm \in TimerIds : TimerFire(tm)
    \/ \E tk \in BagToSet(ticks), resp \in StatusResponses, d \in BOOLEAN :
          StatusResponse(tk, resp, d)
    \/ \E tk \in BagToSet(ticks), resp \in StopResponses : StopResponse(tk, resp)
    \/ \E s \in SessionIds, ok \in BOOLEAN : PurchaseSettle(s, ok)

Next == MonitorNext

\* The same timer callback, with the history of what the invocation could
\* have seen at its start.
TimerFireCounted(tm) == CheckSessions(tm, nextId)

\* Registrations and ticks only, each invocation remembering how many sessions
\* had been registered when it began.
SnapshotNext ==
    \/ \E req \in Requests : StartMonitoringCall(req)
    \/ \E req \in Requests, resp \in {"ok", "httpError"} : StartMonitoringDone(req, resp)
    \/ \E tm \in TimerIds : TimerFireCounted(tm)
    \/ \E tk \in BagToSet(ticks), resp \in {"below", "notBelow", "notFound"} :
          StatusResponse(tk, resp, TRUE)
    \/ \E tk \in BagToSet(ticks) : StopResponse(tk, "ok")

SpecSnapshot == Init /\ [][SnapshotNext]_vars

Spec == Init /\ [][Next]_vars

\* =================================================================== ShopifyAgent
maxAttempts == 120

\* Whether String.prototype.includes finds `needle` in `text`, for the texts
\* the model uses.
Includes(text, needle) ==
    CASE needle = "Task failed" ->
             text \in {"Task failed", "Task failed: card declined"}
      [] needle = "failed"      ->
             text \in {"Task failed", "Task failed: card declined",
                       "Uber booking failed", "Payment failed",
                       "Request failed with status code 500"}
      [] needle = "adding"      ->
             text \in {"adding item to cart", "adding to cart",
                       "adding to cart before checkout", "adding shipping address"}
      [] needle = "cart"        ->
             text \in {"adding item to cart", "adding to cart",
                       "adding to cart before checkout", "cart is ready"}
      [] needle = "checkout"    ->
             text \in {"proceeding to checkout", "adding to cart before checkout",
                       "submitting checkout form"}
      [] needle = "submitting"  ->
             text \in {"submitting order", "submitting checkout form"}
      [] OTHER -> FALSE

\* String.prototype.toLowerCase on the step messages the task service sends.
ToLowerCase(text) ==
    CASE text = "Adding item to cart"    -> "adding item to cart"
      [] text = "Proceeding to checkout" -> "proceeding to checkout"
      [] text = "Submitting order"       -> "submitting order"
      [] text = "Loading product page"   -> "loading product page"
      [] text = "ADDING TO CART"         -> "adding to cart"
      [] text = "Adding to cart before checkout" -> "adding to cart before checkout"
      [] text = "Submitting checkout form" -> "submitting checkout form"
      [] text = "Adding shipping address" -> "adding shipping address"
      [] text = "Cart is ready"          -> "cart is ready"
      [] OTHER -> text

StepMessages == {"Adding item to cart", "Proceeding to checkout", "Loading product page"}

\* Step messages that match several rules, one rule, or part of a rule.
RuleMessages ==
    StepMessages \cup
    {"Submitting order", "ADDING TO CART", "Adding to cart before checkout",
     "Submitting checkout form", "Adding shipping address", "Cart is ready"}

\* A progress entry that carries no `message` field (step.message is undefined).
MissingMessage == "<undefined>"

\* error_message values of a status payload ("": the field is absent).
ErrorMessages == {"", "Task failed", "Task failed: card declined", "Out of stock"}

\* Messages of the errors axios.get rejects with.
FetchErrors == {"Network Error"}

\* (current_status, status) pairs of a status payload ("": the field is absent).
StatusPairs ==
    { <<"processing", "">>, <<"", "pending">>,
      <<"completed", "">>, <<"", "success">>,
      <<"failed", "">>, <<"", "error">> }

RECURSIVE SeqsUpTo(_, _)
SeqsUpTo(S, n) ==
    IF n = 0 THEN { << >> }
    ELSE LET shorter == SeqsUpTo(S, n - 1)
         IN  shorter \cup {Append(q, x) : q \in {r \in shorter : Len(r) = n - 1}, x \in S}

\* result_data.progress of a status payload: absent, or a list of steps.
ProgressValues ==
    { [present |-> FALSE, steps |-> << >>] } \cup
    { [present |-> TRUE, steps |-> q] : q \in SeqsUpTo(StepMessages, MaxSteps) }

\* What one status request comes back with: a rejection of axios.get, a JSON
\* null body, or a payload.  error_message is only read on a failed status.
Payload(pair, em, progress) ==
    [kind |-> "data", current_status |-> pair[1], status |-> pair[2],
     error_message |-> em, progress |-> progress, fetchError |-> ""]

\* data.current_status || data.status
EffectiveStatus(r) == IF r.current_status # "" THEN r.current_status ELSE r.status

\* How the loop body reads an answer: a terminal success, a terminal failure,
\* any other status, or no payload at all.
StatusClass(r) ==
    IF r.kind # "data" THEN "noPayload"
    ELSE IF EffectiveStatus(r) \in {"completed", "success"} THEN "completed"
    ELSE IF EffectiveStatus(r) \in {"failed", "error"} THEN "failed"
    ELSE "nonTerminal"

PollResponses ==
    { [kind |-> "reject", current_status |-> "", status |-> "", error_message |-> "",
       progress |-> [present |-> FALSE, steps |-> << >>], fetchError |-> m] : m \in FetchErrors }
    \cup
    { [kind |-> "nullBody", current_status |-> "", status |-> "", error_message |-> "",
       progress |-> [present |-> FALSE, steps |-> << >>],
       fetchError |-> "Cannot read properties of null"] }
    \cup
    { Payload(pair, "", pr) : pair \in StatusPairs, pr \in ProgressValues }
    \cup
    { Payload(pair, em, pr) :
        pair \in {q \in StatusPairs : q[1] \in {"failed", "error"} \/
                                      (q[1] = "" /\ q[2] \in {"failed", "error"})},
        em \in ErrorMessages, pr \in ProgressValues }

\* Answers of the task-creation POST through fetchWithPayment.
CreateResponses == {"ok", "notOk", "noTaskId", "fetchError"}

\* userHandle argument of purchaseProduct ("": null, the default).
AgentHandles == {"", "u1"}

\* sendUpdate(handle, text): the update, and whether osascript took it.
Update(handle, text, delivered) == Effect("update", NoSession, handle, <<text>>, delivered)

\* Mutant: sendUpdate without its try/catch, so a failed osascript call throws.
SendUpdateThrows_NoCatch(delivered) == ~delivered

\* Whether sendUpdate throws to its caller: its body is one try/catch that
\* logs a failed osascript call.
SendUpdateThrows(delivered) == FALSE

\* The error the catch block of purchaseProduct rethrows: the one it caught,
\* unless its own sendUpdate call threw.
Propagated(handle, message, delivered) ==
    IF handle # "" /\ SendUpdateThrows(delivered) THEN "Command failed: osascript"
    ELSE message

\* Mutant: the checkout rule is tested before the cart rule.
StepUpdate_CheckoutFirst(message) ==
    LET msgLower == ToLowerCase(message)
    IN  IF Includes(msgLower, "checkout") THEN "Heading to checkout now..."
        ELSE IF Includes(msgLower, "adding") /\ Includes(msgLower, "cart")
        THEN "Found the item! Adding it to cart..."
        ELSE IF Includes(msgLower, "submitting") THEN "Almost there, submitting the order..."
        ELSE ""

\* The notification a progress step triggers ("": none).
StepUpdate(message) ==
    LET msgLower == ToLowerCase(message)
    IN  IF Includes(msgLower, "adding") /\ Includes(msgLower, "cart")
        THEN "Found the item! Adding it to cart..."
        ELSE IF Includes(msgLower, "checkout") THEN "Heading to checkout now..."
        ELSE IF Includes(msgLower, "submitting") THEN "Almost there, submitting the order..."
        ELSE ""

RECURSIVE StepUpdates(_, _, _)
\* newSteps.forEach: the updates sent for the steps, in order.
StepUpdates(handle, steps, delivered) ==
    IF steps = << >> \/ handle = "" THEN << >>
    ELSE LET u == StepUpdate(Head(steps))
             rest == StepUpdates(handle, Tail(steps), delivered)
         IN  IF u = "" THEN rest ELSE << Update(handle, u, delivered) >> \o rest

\* The catch block of the polling loop rethrows an error whose message is, or
\* includes, 'Task failed'; any other error is logged and the loop goes on.
Rethrown(message) == message = "Task failed" \/ Includes(message, "Task failed")

\* The first entry of newSteps at which the forEach callback throws, 0 when it
\* runs through: reading toLowerCase of an undefined message throws a
\* TypeError, and so would a sendUpdate that threw.  Without a userHandle the
\* callback only logs.
RECURSIVE ThrowsAt(_, _, _, _)
ThrowsAt(handle, newSteps, delivered, k) ==
    IF handle = "" \/ k > Len(newSteps) THEN 0
    ELSE IF newSteps[k] = MissingMessage
            \/ (StepUpdate(newSteps[k]) # "" /\ SendUpdateThrows(delivered))
    THEN k
    ELSE ThrowsAt(handle, newSteps, delivered, k + 1)

\* Mutant: only 'completed' is taken as a terminal success.
IsSuccessStatus_CompletedOnly(status) == status = "completed"

\* status === 'completed' || status === 'success'
IsSuccessStatus(status) == status \in {"completed", "success"}

\* One iteration of the loop of pollTaskStatus after its two awaits: the try
\* block on the answer `r`, then the catch block.  Gives how the iteration
\* ends ("continue", "return", "throw"), the error thrown, the new
\* lastProgressCount, the number of new entries the forEach visited and the
\* updates sent.
PollIteration(handle, lastProgressCount, r, delivered) ==
    IF r.kind # "data"
    THEN \* axios.get rejected, or reading a field of null threw
         [next |-> IF Rethrown(r.fetchError) THEN "throw" ELSE "continue",
          error |-> IF Rethrown(r.fetchError) THEN r.fetchError ELSE "",
          lastProgressCount |-> lastProgressCount,
          inspected |-> 0,
          effects |-> << >>]
    ELSE LET status == EffectiveStatus(r)
             steps == r.progress.steps
             grew == r.progress.present /\ Len(steps) > lastProgressCount
             newSteps == IF grew THEN SubSeq(steps, lastProgressCount + 1, Len(steps))
                         ELSE << >>
             threwAt == ThrowsAt(handle, newSteps, delivered, 1)
             count == IF grew THEN Len(steps) ELSE lastProgressCount
             stepFx == StepUpdates(handle, newSteps, delivered)
             thrown == IF r.error_message # "" THEN r.error_message ELSE "Task failed"
         IN  IF threwAt > 0
             THEN \* the callback threw before lastProgressCount was assigned and
                  \* before the status was looked at; the catch block logs it
                  [next |-> "continue", error |-> "",
                   lastProgressCount |-> lastProgressCount,
                   inspected |-> threwAt,
                   effects |-> StepUpdates(handle, SubSeq(newSteps, 1, threwAt), delivered)]
             ELSE IF IsSuccessStatus(status)
             THEN [next |-> IF handle # "" /\ SendUpdateThrows(delivered)
                            THEN "continue" ELSE "return",
                   error |-> "", lastProgressCount |-> count,
                   inspected |-> Len(newSteps),
                   effects |-> stepFx \o
                       (IF handle # ""
                        THEN << Update(handle, "Success! Order placed.", delivered) >>
                        ELSE << >>)]
             ELSE IF status \in {"failed", "error"}
             THEN [next |-> IF Rethrown(thrown) THEN "throw" ELSE "continue",
                   error |-> IF Rethrown(thrown) THEN thrown ELSE "",
                   lastProgressCount |-> count, inspected |-> Len(newSteps),
                   effects |-> stepFx]
             ELSE [next |-> "continue", error |-> "", lastProgressCount |-> count,
                   inspected |-> Len(newSteps), effects |-> stepFx]

\* The visit counts after a turn that visited `n` entries from index `from` on.
Visited(counts, from, n) ==
    [k \in 1..MaxSteps |->
        IF from < k /\ k <= from + n /\ counts[k] < 2 THEN counts[k] + 1 ELSE counts[k]]

\* The catch block of purchaseProduct: the failure update, then the rethrow.
FailureUpdate(handle, message, delivered) ==
    IF handle # "" THEN << Update(handle, "Purchase failed: " \o message, delivered) >>
    ELSE << >>

\* Mutant: getAccount does not test the key.
GetAccountThrows_NoCheck(key) == FALSE

\* getAccount throws when the private key is not set.
GetAccountThrows(key) == key = ""

\* purchaseProduct up to its first await: getAccount, then the creation POST.
PurchaseCall(handle, delivered) ==
    /\ agent.pc = "idle"
    /\ outcome.state = "none"
    /\ IF GetAccountThrows(privateKey)
       THEN LET msg == "WALLET_PRIVATE_KEY not found in environment variables"
            IN  /\ delivered \/ handle # ""
                /\ agent' = [agent EXCEPT !.pc = "done", !.userHandle = handle]
                /\ outcome' = [state |-> "rejected",
                               error |-> Propagated(handle, msg, delivered), data |-> ""]
                /\ ev' = Event("purchaseProduct", NoSession, "", "rejected",
                               FailureUpdate(handle, msg, delivered))
       ELSE /\ delivered
            /\ agent' = [agent EXCEPT !.pc = "create", !.userHandle = handle]
            /\ outcome' = [outcome EXCEPT !.state = "running"]
            /\ ev' = Event("purchaseProduct", NoSession, "", "pending",
                           << Effect("createPost", NoSession, "", << >>, TRUE) >>)
    /\ UNCHANGED <<requests, privateKey, inspections>>
    /\ UNCHANGED <<monitorVars, chatVars>>

\* Mutant: the task_id check is dropped.
CreationAccepted_NoTaskIdCheck(resp) == resp \in {"ok", "noTaskId"}

\* Whether the answer of the creation POST gets past response.ok and the
\* task_id check.
CreationAccepted(resp) == resp = "ok"

\* The answer of the creation POST: the checks on it, the "payment confirmed"
\* update, and pollTaskStatus up to the first await of its loop.
CreateResponse(resp, delivered) ==
    LET handle == agent.userHandle
        confirmThrew == handle # "" /\ SendUpdateThrows(delivered)
    IN
    /\ agent.pc = "create"
    /\ delivered \/ handle # ""
    /\ IF CreationAccepted(resp) /\ ~confirmThrew
       THEN /\ agent' = [agent EXCEPT !.pc = "poll", !.i = 0, !.lastProgressCount = 0]
            /\ outcome' = outcome
            /\ ev' = Event("purchaseProduct.created", NoSession, resp, "pending",
                     IF handle # ""
                     THEN << Update(handle, "Payment confirmed!", delivered) >>
                     ELSE << >>)
       ELSE LET msg == CASE CreationAccepted(resp) -> "Command failed: osascript"
                         [] resp = "notOk" -> "Payment/Task failed"
                         [] resp = "noTaskId" -> "No task_id returned from service"
                         [] OTHER -> "fetch failed"
            IN  /\ agent' = [agent EXCEPT !.pc = "done"]
                /\ outcome' = [state |-> "rejected",
                               error |-> Propagated(handle, msg, delivered), data |-> ""]
                /\ ev' = Event("purchaseProduct.created", NoSession, resp, "rejected",
                               (IF CreationAccepted(resp)
                                THEN << Update(handle, "Payment confirmed!", delivered) >>
                                ELSE << >>) \o FailureUpdate(handle, msg, delivered))
    /\ UNCHANGED <<requests, privateKey, inspections>>
    /\ UNCHANGED <<monitorVars, chatVars>>

\* Mutant: the loop bound is off by one, so the throw after the loop is never
\* reached within the attempts.
TimedOut_NeverThrows(it, i) == it.next = "continue" /\ i + 1 > maxAttempts

\* Whether a turn of the loop that ended as `it` at attempt index i was the
\* last of the attempts, so that the throw after the loop is reached.
TimedOut(it, i) == it.next = "continue" /\ i + 1 >= maxAttempts

\* One turn of the polling loop: the 1 s sleep ends, the status request is
\* issued and answered with `r`, and the loop body runs.  The loop then
\* sleeps again, returns, or throws into the catch block of purchaseProduct.
Poll(r, delivered) ==
    /\ agent.pc = "poll"
    /\ agent.i < maxAttempts
    /\ \E it \in {PollIteration(agent.userHandle, agent.lastProgressCount, r, delivered)} :
       \E failure \in {IF TimedOut(it, agent.i) THEN "Task timed out" ELSE it.error} :
       \E ended \in {it.next = "throw" \/ TimedOut(it, agent.i)} :
         /\ delivered \/ it.effects # << >> \/ (agent.userHandle # "" /\ ended)
         /\ requests' = requests + 1
         /\ agent' = [agent EXCEPT
                        !.pc = IF it.next = "continue" /\ ~ended THEN "poll" ELSE "done",
                        !.i = IF it.next = "continue" THEN @ + 1 ELSE @,
                        !.lastProgressCount = it.lastProgressCount]
         /\ outcome' =
              IF it.next = "return"
              THEN [state |-> "resolved", error |-> "", data |-> EffectiveStatus(r)]
              ELSE IF ended
              THEN [state |-> "rejected",
                    error |-> Propagated(agent.userHandle, failure, delivered),
                    data |-> ""]
              ELSE outcome
         /\ inspections' = Visited(inspections, agent.lastProgressCount, it.inspected)
         /\ ev' = Event("pollTaskStatus", NoSession, StatusClass(r),
                        IF it.next = "return" THEN "resolved"
                        ELSE IF ended THEN "rejected" ELSE "pending",
                        it.effects \o
                        (IF ended
                         THEN FailureUpdate(agent.userHandle, failure, delivered)
                         ELSE << >>))
    /\ UNCHANGED privateKey
    /\ UNCHANGED <<monitorVars, chatVars>>

PurchaseNext ==
    \/ \E h \in AgentHandles, d \in BOOLEAN : PurchaseCall(h, d)
    \/ \E resp \in CreateResponses, d \in BOOLEAN : CreateResponse(resp, d)
    \/ \E r \in PollResponses, d \in BOOLEAN : Poll(r, d)

\* The agent is constructed with or without WALLET_PRIVATE_KEY in the
\* environment.
PurchaseInit ==
    /\ MonitorInit
    /\ AgentInit
    /\ privateKey \in {"", "0xkey"}
    /\ ChatInit

SpecPurchase == PurchaseInit /\ [][PurchaseNext]_vars

\* newSteps.forEach on one batch of new progress entries, for a call made with
\* `handle`; the event keeps the batch as the answer it consumed.
Announce(handle, newSteps, delivered) ==
    /\ agent.pc = "idle"
    /\ LET fx == StepUpdates(handle, newSteps, delivered)
       IN  /\ delivered \/ fx # << >>
           /\ ev' = Event("forEach", NoSession, newSteps, "", fx)
    /\ agent' = [agent EXCEPT !.userHandle = handle]
    /\ UNCHANGED <<privateKey, requests, outcome, inspections>>
    /\ UNCHANGED <<monitorVars, chatVars>>

StepsNext ==
    \E h \in AgentHandles, q \in SeqsUpTo(RuleMessages, MaxSteps), d \in BOOLEAN :
        Announce(h, q, d)

SpecSteps == Init /\ [][StepsNext]_vars

\* Status answers for the progress handling: a running or completed task, or a
\* failed request, with progress lists whose entries may lack a message.
ProgressResponses ==
    { r \in PollResponses : r.kind = "reject" }
    \cup
    { Payload(pair, "", [present |-> TRUE, steps |-> q]) :
        pair \in { <<"processing", "">>, <<"completed", "">> },
        q \in SeqsUpTo(StepMessages \cup {MissingMessage}, MaxSteps) }

ProgressNext ==
    \/ \E h \in AgentHandles, d \in BOOLEAN : PurchaseCall(h, d)
    \/ \E resp \in CreateResponses, d \in BOOLEAN : CreateResponse(resp, d)
    \/ \E r \in ProgressResponses, d \in BOOLEAN : Poll(r, d)

SpecProgress == Init /\ [][ProgressNext]_vars

\* ===================================================== AIChatHandler (chat)
\* handleIncomingMessage (src/unnamed/part_001, lines 49-193) and the tools
\* the model may call while generateText is awaited (src/unnamed/part_000).
\* A text is a sequence of characters.
MaxTextLen == 4    \* characters a generated text may hold

Chars == {"a", " ", "\n"}
Texts == SeqsUpTo(Chars, MaxTextLen)

IsSpace(c) == c \in {" ", "\n"}

RECURSIVE TrimStart(_)
TrimStart(s) ==
    IF s = << >> THEN << >>
    ELSE IF IsSpace(Head(s)) THEN TrimStart(Tail(s)) ELSE s

RECURSIVE TrimEnd(_)
TrimEnd(s) ==
    IF s = << >> THEN << >>
    ELSE IF IsSpace(s[Len(s)]) THEN TrimEnd(SubSeq(s, 1, Len(s) - 1)) ELSE s

\* String.prototype.trim
Trim(s) == TrimEnd(TrimStart(s))

\* text.split('\n'): the pieces between line feeds, empty pieces included.
RECURSIVE Split(_)
Split(s) ==
    IF \A k \in DOMAIN s : s[k] # "\n" THEN << s >>
    ELSE LET k == CHOOSE j \in DOMAIN s :
                      /\ s[j] = "\n"
                      /\ \A l \in 1..(j - 1) : s[l] # "\n"
         IN  << SubSeq(s, 1, k - 1) >> \o Split(SubSeq(s, k + 1, Len(s)))

RECURSIVE NonEmpty(_)
NonEmpty(lines) ==
    IF lines = << >> THEN << >>
    ELSE IF Len(Head(lines)) > 0 THEN << Head(lines) >> \o NonEmpty(Tail(lines))
    ELSE NonEmpty(Tail(lines))

\* result.text.split('\n').map(msg => msg.trim()).filter(msg => msg.length > 0)
AutoSendLines(text) ==
    NonEmpty([k \in DOMAIN Split(text) |-> Trim(Split(text)[k])])

\* The tools of llmTools that matter here: two that act for "the current
\* user", and the two that ask for silence.
RecipientTools == {"monitorTokenAndBuy", "sendMessage"}
SilenceTools   == {"skipResponse", "waitForMoreInput"}

\* Mutant: only skipResponse silences the reply.
ShouldSkipResponse_SkipOnly(calls) == "skipResponse" \in calls

\* result.toolCalls?.some(call => call.toolName === 'waitForMoreInput' ||
\*                                call.toolName === 'skipResponse')
ShouldSkipResponse(calls) ==
    \E c \in calls : c = "waitForMoreInput" \/ c = "skipResponse"

\* global.currentMessageHandle || 'unknown'
AmbientHandle ==
    IF currentMessageHandle # NoHandle THEN currentMessageHandle ELSE "unknown"

\* handleIncomingMessage up to its first await: the handle is published in
\* the global and the user message goes to the store; the invocation then
\* awaits the store and generateText.
HandleIncomingMessage(m, h) ==
    /\ chats[m].pc = "none"
    /\ currentMessageHandle' = h
    /\ chats' = [chats EXCEPT ![m] = [NoChat EXCEPT !.pc = "generating",
                                                    !.handle = h]]
    /\ ev' = Event("handleIncomingMessage", m, h, "pending", << >>)
    /\ UNCHANGED <<listener, conversations, addCalls, added, ride>>
    /\ UNCHANGED <<monitorVars, agentVars>>

\* The model calls a tool while generateText is awaited; a recipient tool
\* reads the global when it runs.
ToolExecute(m, tool) ==
    /\ chats[m].pc = "generating"
    /\ tool \notin chats[m].calls
    /\ chats' = [chats EXCEPT ![m].calls = @ \cup {tool}]
    /\ ev' = Event("tool", m, tool, "pending",
                   IF tool \in RecipientTools
                   THEN << Effect(tool, m, AmbientHandle, << >>, TRUE) >>
                   ELSE << >>)
    /\ UNCHANGED <<currentMessageHandle, listener, conversations, addCalls,
                   added, ride>>
    /\ UNCHANGED <<monitorVars, agentVars>>

\* generateText resolves with a text; the assistant message goes to the store.
GenerateText(m, text) ==
    /\ chats[m].pc = "generating"
    /\ chats' = [chats EXCEPT ![m].pc = "saving", ![m].text = text]
    /\ ev' = Event("generateText", m, "ok", "pending", << >>)
    /\ UNCHANGED <<currentMessageHandle, listener, conversations, addCalls,
                   added, ride>>
    /\ UNCHANGED <<monitorVars, agentVars>>

\* generateText (or the store) rejects: the outer catch returns
\* success: false and the finally block clears the global.
GenerateFails(m) ==
    /\ chats[m].pc = "generating"
    /\ chats' = [chats EXCEPT ![m].pc = "done", ![m].threw = TRUE]
    /\ currentMessageHandle' = NoHandle
    /\ ev' = Event("generateText", m, "error", "resolved", << >>)
    /\ UNCHANGED <<listener, conversations, addCalls, added, ride>>
    /\ UNCHANGED <<monitorVars, agentVars>>

\* After the assistant message is stored: the auto-send decision.  Either the
\* first line waits for its delay, or the invocation returns (finally).
Respond(m) ==
    /\ chats[m].pc = "saving"
    /\ LET c == chats[m]
           send == /\ ~ShouldSkipResponse(c.calls)
                   /\ Len(c.text) > 0
                   /\ Len(Trim(c.text)) > 0
       IN  IF send
           THEN /\ chats' = [chats EXCEPT ![m].pc = "sending",
                                          ![m].pending = AutoSendLines(c.text)]
                /\ ev' = Event("respond", m, "send", "pending", << >>)
                /\ UNCHANGED currentMessageHandle
           ELSE /\ chats' = [chats EXCEPT ![m].pc = "done"]
                /\ ev' = Event("respond", m, "skip", "resolved", << >>)
                /\ currentMessageHandle' = NoHandle
    /\ UNCHANGED <<listener, conversations, addCalls, added, ride>>
    /\ UNCHANGED <<monitorVars, agentVars>>

\* One iteration of the send loop after its delay: execSync sends the line to
\* the handle of this invocation; when it throws, the catch around the loop
\* ends the sending.  After the last line the invocation returns (finally).
AutoSend(m, ok) ==
    /\ chats[m].pc = "sending"
    /\ LET c == chats[m]
           line == Head(c.pending)
           last == ~ok \/ Len(c.pending) = 1
       IN  /\ chats' = [chats EXCEPT
                 ![m].pc = IF last THEN "done" ELSE "sending",
                 ![m].pending = IF ok THEN Tail(c.pending) ELSE c.pending,
                 ![m].sent = IF ok THEN Append(c.sent, line) ELSE c.sent,
                 ![m].threw = ~ok]
           /\ ev' = Event("autoSend", m, "", IF last THEN "resolved" ELSE "pending",
                          << Effect("autoSend", m, c.handle, line, ok) >>)
           /\ currentMessageHandle' =
                 IF last THEN NoHandle ELSE currentMessageHandle
    /\ UNCHANGED <<listener, conversations, addCalls, added, ride>>
    /\ UNCHANGED <<monitorVars, agentVars>>

\* Messages from several handles, handled as they arrive: the listener does
\* not wait for one invocation before it starts the next.
ChatNext ==
    \/ \E m \in 1..MaxMessages, h \in ChatHandles : HandleIncomingMessage(m, h)
    \/ \E m \in 1..MaxMessages, t \in RecipientTools : ToolExecute(m, t)
    \/ \E m \in 1..MaxMessages : GenerateText(m, << "a" >>)
    \/ \E m \in 1..MaxMessages : GenerateFails(m)
    \/ \E m \in 1..MaxMessages : Respond(m)
    \/ \E m \in 1..MaxMessages, ok \in BOOLEAN : AutoSend(m, ok)

SpecChat == Init /\ [][ChatNext]_vars

\* One message, every text, and the tools that decide the auto-send.
AutoSendNext ==
    \/ \E h \in ChatHandles : HandleIncomingMessage(1, h)
    \/ \E t \in SilenceTools \cup {"sendMessage"} : ToolExecute(1, t)
    \/ \E text \in Texts : GenerateText(1, text)
    \/ GenerateFails(1)
    \/ Respond(1)
    \/ \E ok \in BOOLEAN : AutoSend(1, ok)

SpecAutoSend == Init /\ [][AutoSendNext]_vars

\* ================================================== SmartMessageListener
\* src/smart_listener.js.  A message is [fromMe, text, handle]; its text is
\* null, undefined or a string.
JsNull      == [kind |-> "null", chars |-> << >>]
JsUndefined == [kind |-> "undefined", chars |-> << >>]
Str(chars)  == [kind |-> "string", chars |-> chars]

ListenerTexts ==
    {JsNull, JsUndefined, Str(<< >>), Str(<<" ">>), Str(<<"a">>), Str(<<" ", "a">>)}

IncomingMessages ==
    [fromMe : BOOLEAN, text : ListenerTexts, handle : ChatHandles]

HandleLists == {NullList} \cup {List(S) : S \in SUBSET ChatHandles}

\* Mutant: the blacklist is not consulted.
ShouldProcessMessage_NoBlacklist(l, message) ==
    IF message.text.kind = "null" THEN "false"
    ELSE IF message.text.kind = "undefined" THEN "false"
    ELSE IF ~l.whitelist.isNull /\ message.handle \notin l.whitelist.items THEN "false"
    ELSE IF message.text.chars = << >> \/ Len(Trim(message.text.chars)) = 0 THEN "false"
    ELSE "true"

\* shouldProcessMessage; "throws" when this.blacklist is null (includes is
\* read from null).
ShouldProcessMessage(l, message) ==
    IF message.text.kind = "null" THEN "false"
    ELSE IF message.text.kind = "undefined" THEN "false"
    ELSE IF l.blacklist.isNull THEN "throws"
    ELSE IF message.handle \in l.blacklist.items THEN "false"
    ELSE IF ~l.whitelist.isNull /\ message.handle \notin l.whitelist.items THEN "false"
    ELSE IF message.text.chars = << >> \/ Len(Trim(message.text.chars)) = 0 THEN "false"
    ELSE "true"

\* handleMessage: the message is ignored (fromMe), skipped by the filter,
\* logged only, or passed to aiHandler.handleIncomingMessage; the invocation
\* it starts is HandleIncomingMessage above.
HandleMessage(message) ==
    /\ LET should == ShouldProcessMessage(listener, message)
           result ==
               IF message.fromMe THEN "ignored"
               ELSE IF should = "throws" THEN "rejected"
               ELSE IF should = "false" THEN "skipped"
               ELSE IF listener.enabled /\ listener.aiAvailable THEN "passed"
               ELSE "logged"
       IN  ev' = Event("handleMessage", NoSession, message, result,
                       IF result = "passed"
                       THEN << Effect("handleIncomingMessage", NoSession,
                                      message.handle, message.text.chars, TRUE) >>
                       ELSE << >>)
    /\ UNCHANGED chatVars
    /\ UNCHANGED <<monitorVars, agentVars>>

SetAIEnabled(enabled) ==
    /\ listener' = [listener EXCEPT !.enabled = enabled]
    /\ ev' = Event("setAIEnabled", NoSession, "", "", << >>)
    /\ UNCHANGED <<currentMessageHandle, chats, conversations, addCalls, added, ride>>
    /\ UNCHANGED <<monitorVars, agentVars>>

SetWhitelist(handles) ==
    /\ listener' = [listener EXCEPT !.whitelist = handles]
    /\ ev' = Event("setWhitelist", NoSession, "", "", << >>)
    /\ UNCHANGED <<currentMessageHandle, chats, conversations, addCalls, added, ride>>
    /\ UNCHANGED <<monitorVars, agentVars>>

SetBlacklist(handles) ==
    /\ listener' = [listener EXCEPT !.blacklist = handles]
    /\ ev' = Event("setBlacklist", NoSession, "", "", << >>)
    /\ UNCHANGED <<currentMessageHandle, chats, conversations, addCalls, added, ride>>
    /\ UNCHANGED <<monitorVars, agentVars>>

ListenerNext ==
    \/ \E message \in IncomingMessages : HandleMessage(message)
    \/ \E enabled \in BOOLEAN : SetAIEnabled(enabled)
    \/ \E handles \in HandleLists : SetWhitelist(handles)
    \/ \E handles \in HandleLists : SetBlacklist(handles)

\* The constructor: createAIChatHandler may throw (AI unavailable);
\* options.enabled, options.whitelist and options.blacklist are the caller's.
ListenerInit ==
    /\ MonitorInit
    /\ AgentInit
    /\ privateKey = "0xkey"
    /\ currentMessageHandle = NoHandle
    /\ chats = [m \in 1..MaxMessages |-> NoChat]
    /\ conversations = [h \in ChatHandles |-> << >>]
    /\ addCalls = {}
    /\ added = << >>
    /\ ride = NoRide
    /\ \E aiAvailable \in BOOLEAN, enabled \in BOOLEAN,
          whitelist \in HandleLists, blacklist \in HandleLists \ {NullList} :
          listener = [enabled |-> enabled /\ aiAvailable,
                      aiAvailable |-> aiAvailable,
                      whitelist |-> whitelist, blacklist |-> blacklist]

SpecListener == ListenerInit /\ [][ListenerNext]_vars

\* ===================================================== ConversationStore
\* src/unnamed/part_000, lines 57-138, with MongoDB connected.  A message is
\* named by the number of the addMessage call that adds it.
MaxCalls == 3      \* addMessage calls that may overlap in one run
MaxAdds  == 102    \* addMessage calls made one after the other in one run

HistoryLimit == 100

\* Mutant: the list is never cut.
Pushed_NoLimit(messages, message) == Append(messages, message)

\* conversation.messages.push(message), then slice(-100) when the list is
\* longer than 100.
Pushed(messages, message) ==
    LET all == Append(messages, message)
    IN  IF Len(all) > HistoryLimit
        THEN SubSeq(all, Len(all) - HistoryLimit + 1, Len(all))
        ELSE all

\* addMessage up to its first await: getConversation asks the collection
\* for the document of the handle.
AddMessageCall(h) ==
    /\ added' = Append(added, h)
    /\ addCalls' = addCalls \cup
          {[handle |-> h, message |-> Len(added) + 1, pc |-> "reading",
            messages |-> << >>]}
    /\ ev' = Event("addMessage", Len(added) + 1, h, "pending", << >>)
    /\ UNCHANGED <<currentMessageHandle, chats, listener, conversations, ride>>
    /\ UNCHANGED <<monitorVars, agentVars>>

\* findOne answers with the stored document (an empty conversation when
\* there is none); the message is pushed, the list cut, and saveConversation
\* asks the collection to replace the document.
AddMessageRead(call) ==
    /\ call \in addCalls
    /\ call.pc = "reading"
    /\ addCalls' = (addCalls \ {call}) \cup
          {[call EXCEPT !.pc = "saving",
                        !.messages = Pushed(conversations[call.handle],
                                            call.message)]}
    /\ ev' = Event("getConversation", call.message, call.handle, "pending", << >>)
    /\ UNCHANGED <<currentMessageHandle, chats, listener, conversations, added,
                   ride>>
    /\ UNCHANGED <<monitorVars, agentVars>>

\* replaceOne stores the list this call built; addMessage returns.
AddMessageSave(call) ==
    /\ call \in addCalls
    /\ call.pc = "saving"
    /\ conversations' = [conversations EXCEPT ![call.handle] = call.messages]
    /\ addCalls' = addCalls \ {call}
    /\ ev' = Event("saveConversation", call.message, call.handle, "resolved", << >>)
    /\ UNCHANGED <<currentMessageHandle, chats, listener, added, ride>>
    /\ UNCHANGED <<monitorVars, agentVars>>

\* addMessage calls from handlers that run concurrently.
StoreNext ==
    \/ \E h \in ChatHandles : Len(added) < MaxCalls /\ AddMessageCall(h)
    \/ \E call \in addCalls : AddMessageRead(call)
    \/ \E call \in addCalls : AddMessageSave(call)

SpecStore == Init /\ [][StoreNext]_vars

\* addMessage calls made one after the other for one handle, each awaited
\* before the next is made.
HistoryNext ==
    \/ Len(added) < MaxAdds /\ addCalls = {} /\ AddMessageCall("u1")
    \/ \E call \in addCalls : AddMessageRead(call)
    \/ \E call \in addCalls : AddMessageSave(call)

SpecHistory == Init /\ [][HistoryNext]_vars

\* =========================================================== bookUberRide
\* src/unnamed/part_000, lines 1266-1379.
uberMaxAttempts == 60

\* Answers of the task-creation POST: fetch rejects, a non-2xx response, a
\* JSON null body, a body without task_id, a body with task_id.
UberCreateResponses == {"fetchError", "notOk", "nullBody", "noTaskId", "taskId"}

\* Answers of one status request: axios.get rejects, a JSON null body, or a
\* payload with current_status / status and, on failure, error_message
\* ("": the field is absent).
UberPollResponses ==
    { [kind |-> "reject", current_status |-> "", status |-> "", error_message |-> m] :
        m \in {"Network Error", "Request failed with status code 500"} }
    \cup
    { [kind |-> "nullBody", current_status |-> "", status |-> "",
       error_message |-> "Cannot read properties of null"] }
    \cup
    { [kind |-> "data", current_status |-> pair[1], status |-> pair[2],
       error_message |-> ""] :
        pair \in { <<"processing", "">>, <<"", "pending">>, <<"completed", "">>,
                   <<"", "success">>, <<"failed", "">>, <<"", "failed">> } }
    \cup
    { [kind |-> "data", current_status |-> "failed", status |-> "",
       error_message |-> m] : m \in {"Card declined", "Payment failed"} }

\* The message of the error the loop body throws for an answer ("": none).
UberThrown(r) ==
    IF r.kind # "data" THEN r.error_message
    ELSE IF EffectiveStatus(r) = "failed"
         THEN (IF r.error_message # "" THEN r.error_message
               ELSE "Uber booking failed")
    ELSE ""

\* if (pollError.message.includes('failed')) throw pollError
UberRethrown(message) == message # "" /\ Includes(message, "failed")

\* bookUberRide up to the creation request; without WALLET_PRIVATE_KEY it
\* throws and the catch returns success: false.
BookUberRide(key) ==
    /\ ride.pc = "idle"
    /\ IF key = ""
       THEN /\ ride' = [ride EXCEPT !.pc = "done", !.success = "false"]
            /\ ev' = Event("bookUberRide", NoSession, "noKey", "resolved", << >>)
       ELSE /\ ride' = [ride EXCEPT !.pc = "creating"]
            /\ ev' = Event("bookUberRide", NoSession, "", "pending", << >>)
    /\ UNCHANGED <<currentMessageHandle, chats, listener, conversations, addCalls,
                   added>>
    /\ UNCHANGED <<monitorVars, agentVars>>

\* The creation request is answered.  With a task_id the user is told and the
\* polling starts; without one the function goes straight to its return
\* statement, which throws on a null body.
UberCreateResponse(resp) ==
    /\ ride.pc = "creating"
    /\ ride' =
         CASE resp = "taskId"   -> [ride EXCEPT !.pc = "polling"]
           [] resp = "noTaskId" -> [ride EXCEPT !.pc = "done", !.success = "true"]
           [] OTHER             -> [ride EXCEPT !.pc = "done", !.success = "false"]
    /\ ev' = Event("uberCreate", NoSession, resp,
                   IF resp = "taskId" THEN "pending" ELSE "resolved",
                   IF resp = "taskId" /\ currentMessageHandle # NoHandle
                   THEN << Effect("update", NoSession, currentMessageHandle,
                                  <<"Uber requested with x402!">>, TRUE) >>
                   ELSE << >>)
    /\ UNCHANGED <<currentMessageHandle, chats, listener, conversations, addCalls,
                   added>>
    /\ UNCHANGED <<monitorVars, agentVars>>

\* One iteration of the polling loop: the delay, the status request and the
\* reading of its answer.  After the last iteration the loop ends and the
\* function returns success: true.
UberPoll(r) ==
    /\ ride.pc = "polling"
    /\ LET thrown == UberThrown(r)
           done == r.kind = "data" /\ EffectiveStatus(r) \in {"completed", "success"}
       IN  ride' =
             IF done
             THEN [ride EXCEPT !.pc = "done", !.observed = TRUE, !.success = "true"]
             ELSE IF UberRethrown(thrown)
             THEN [ride EXCEPT !.pc = "done", !.success = "false"]
             ELSE IF ride.i + 1 < uberMaxAttempts
             THEN [ride EXCEPT !.i = @ + 1]
             ELSE [ride EXCEPT !.pc = "done", !.i = @ + 1, !.success = "true"]
    /\ ev' = Event("uberPoll", NoSession, r,
                   IF ride'.pc = "done" THEN "resolved" ELSE "pending", << >>)
    /\ UNCHANGED <<currentMessageHandle, chats, listener, conversations, addCalls,
                   added>>
    /\ UNCHANGED <<monitorVars, agentVars>>

UberNext ==
    \/ \E key \in {"", "0xkey"} : BookUberRide(key)
    \/ \E resp \in UberCreateResponses : UberCreateResponse(resp)
    \/ \E r \in UberPollResponses : UberPoll(r)

SpecUber == Init /\ [][UberNext]_vars

\* ========================================================================= claims
Effects(e) == {e.effects[k] : k \in 1..Len(e.effects)}

EffectKinds(e) == {x.kind : x \in Effects(e)}

\* C1: purchaseProduct is dispatched at most once per session: no dispatch is
\* made for a session a purchase was already dispatched for.  (The statement
\* of the claim; the code breaks it when two ticks overlap.)
C1_AtMostOneDispatch ==
    [][\A x \in Effects(ev') : x.kind = "dispatch" => x.sid \notin dispatched]_vars

\* C2: a status poll that reads 'failed' or 'error' ends the polling on that
\* iteration and purchaseProduct rejects.  (The statement of the claim; the
\* code swallows the failure unless its message includes 'Task failed'.)
C2_FailedStopsPolling ==
    (ev.op = "pollTaskStatus" /\ ev.resp = "failed")
        => (agent.pc = "done" /\ outcome.state = "rejected")

\* C3: while the loop polls, every answer so far has used exactly one attempt
\* (requests = i < maxAttempts); a loop that ends on an answer that is no
\* terminal status has issued exactly maxAttempts requests and rejects with
\* the timeout error; success is only returned on a completed status.
C3_TimeoutAfterMaxAttempts ==
    /\ requests <= maxAttempts
    /\ agent.pc = "poll" => (requests = agent.i /\ agent.i < maxAttempts)
    /\ (agent.pc = "done" /\ ev.op = "pollTaskStatus"
          /\ ev.resp \in {"nonTerminal", "noPayload"})
        => (requests = maxAttempts /\ outcome.state = "rejected"
              /\ outcome.error = "Task timed out")
    /\ outcome.state = "resolved" => ev.resp = "completed"

\* C3 witness: the attempts were used up and the last one was a failed fetch.
C3_TimedOutReached ==
    /\ agent.pc = "done" /\ outcome.error = "Task timed out"
    /\ requests = maxAttempts /\ ev.resp = "noPayload"

\* C4: a session a purchase was dispatched for is in the registry only while
\* a tick that observed the crossing still awaits the stop call; once the
\* stop call has answered, with success or failure, the session is gone.
C4_CrossedSessionRemoved ==
    \A s \in dispatched :
        s \in DOMAIN activeSessions
            => \E tk \in BagToSet(ticks) : tk.pc = "stop" /\ tk.sid = s

\* C4 witness: the stop call failed and the session is gone all the same.
C4_RemovedAfterFailedStop ==
    /\ ev.op = "checkSessions.stopped" /\ ev.resp = "httpError"
    /\ ev.sid \in dispatched /\ ev.sid \notin DOMAIN activeSessions

\* Whether the tick that handled session sid in this step went on to query
\* the next session of the registry, when there is one.
WentOnAfter(sid) ==
    LET nxt == NextSession(activeSessions', sid)
    IN  nxt # NoSession =>
          \E tk \in BagToSet(ticks') :
              /\ tk.pc = "get" /\ tk.sid = nxt
              /\ CopiesIn(tk, ticks') > CopiesIn(tk, ticks)

\* C5: a 404 on the status query removes the session in that segment, sends
\* nothing, dispatches nothing, and the tick goes on with the next session.
C5_StaleCleanup ==
    [][(ev'.op = "checkSessions.status" /\ ev'.resp = "notFound")
         => /\ ev'.sid \notin DOMAIN activeSessions'
            /\ dispatched' = dispatched
            /\ EffectKinds(ev') \cap {"notify", "dispatch", "stopPost"} = {}
            /\ WentOnAfter(ev'.sid)]_vars

\* C5 witness: a stale session was removed and the tick went on to another.
C5_StaleRemoved ==
    /\ ev.op = "checkSessions.status" /\ ev.resp = "notFound"
    /\ ev.sid \notin DOMAIN activeSessions
    /\ \E tk \in BagToSet(ticks) : tk.pc = "get" /\ tk.sid > ev.sid

\* C6: a registration that failed or brought no session_id makes
\* startMonitoring reject, and leaves the registry and the polling loop as
\* they were.
C6_FailedRegistrationStoresNothing ==
    [][(ev'.op = "startMonitoring.done" /\ ev'.resp # "ok")
         => /\ ev'.result = "rejected"
            /\ UNCHANGED <<activeSessions, isPolling, pollInterval, timers>>]_vars

\* C6 witness: PriceFeed answered without a session_id and the call rejected.
C6_NoSessionIdRejected ==
    /\ ev.op = "startMonitoring.done" /\ ev.resp = "noSessionId"
    /\ ev.result = "rejected" /\ ~isPolling /\ DOMAIN activeSessions = {}

\* C7: no watch is requested from PriceFeed and no session is stored for a
\* threshold that is not a finite number.  (The statement of the claim; the
\* code posts Number(threshold) unchecked.)
C7_NonFiniteThresholdRefused ==
    /\ \A r \in pendingStarts : IsFinite(ToNumber(r.threshold))
    /\ \A s \in DOMAIN activeSessions : IsFinite(ToNumber(activeSessions[s].threshold))

\* C8: at most one interval timer is alive, it is the one pollInterval holds,
\* and isPolling says whether there is one; startPolling on a running loop
\* changes nothing.
C8_SingleTimer ==
    /\ [](/\ Cardinality(timers) <= 1
          /\ isPolling <=> pollInterval # NoTimer
          /\ timers = IF pollInterval = NoTimer THEN {} ELSE {pollInterval})
    /\ [][(ev'.op = "startPolling" /\ isPolling) => UNCHANGED monitorVars]_vars

\* C8 witness: startPolling was called on a running loop.
C8_StartedTwice ==
    /\ ev.op = "startPolling" /\ ev.resp = "alreadyRunning"
    /\ isPolling /\ Cardinality(timers) = 1

\* C9: no two checkSessions invocations are at the same session at once.
\* (The statement of the claim; setInterval starts a tick while another still
\* awaits.)
C9_NoOverlapPerSession ==
    \A tk \in BagToSet(ticks) :
        /\ CopiesIn(tk, ticks) = 1
        /\ \A other \in BagToSet(ticks) : other.sid = tk.sid => other = tk

\* C10: an error while a tick handles a session (a failed or malformed status
\* answer, a failed stop call) does not reject checkSessions, leaves the
\* interval timer alone, and the tick goes on with the next session.
C10_FailureIsolation ==
    [][(\/ ev'.op = "checkSessions.status" /\ ev'.resp \in {"httpError", "noBody", "notFound"}
        \/ ev'.op = "checkSessions.stopped" /\ ev'.resp = "httpError")
         => /\ ev'.result # "rejected"
            /\ UNCHANGED <<isPolling, pollInterval, timers>>
            /\ WentOnAfter(ev'.sid)]_vars

\* C10 witness: the status query of one session failed and the tick is now
\* querying a later one.
C10_WentOnAfterError ==
    /\ ev.op = "checkSessions.status" /\ ev.resp \in {"httpError", "noBody"}
    /\ ev.result = "pending"
    /\ \E tk \in BagToSet(ticks) : tk.pc = "get" /\ tk.sid > ev.sid

\* C11: every entry of the task's progress list is inspected for
\* notification exactly once: no poll goes again over an entry that an earlier
\* poll already went over, also after a poll that failed or threw while it
\* handled a batch of new entries.
C11_InspectedOnce ==
    \A k \in 1..MaxSteps : inspections[k] <= 1

\* C12: without a wallet private key purchaseProduct fails with the
\* configuration error before any network call: the creation request is never
\* sent and no status poll is issued.
C12_NoKeyNoNetwork ==
    privateKey = "" =>
        /\ agent.pc \in {"idle", "done"}
        /\ requests = 0
        /\ "createPost" \notin EffectKinds(ev)
        /\ agent.pc = "done" =>
              /\ outcome.state = "rejected"
              /\ outcome.error = "WALLET_PRIVATE_KEY not found in environment variables"

C12_RejectedWithoutKey ==
    /\ privateKey = ""
    /\ ev.op = "purchaseProduct"
    /\ outcome.state = "rejected"

\* C13: when the creation response is not ok, or its body has no task_id,
\* purchaseProduct fails: no status poll is issued and no "payment confirmed"
\* update is sent.
C13_CreationFailureEndsCall ==
    (ev.op = "purchaseProduct.created" /\ ev.resp \in {"notOk", "noTaskId"}) =>
        /\ ev.result = "rejected"
        /\ outcome.state = "rejected"
        /\ outcome.error = (IF ev.resp = "notOk" THEN "Payment/Task failed"
                            ELSE "No task_id returned from service")
        /\ agent.pc = "done"
        /\ requests = 0
        /\ \A x \in Effects(ev) : x.arg # << "Payment confirmed!" >>

C13_NoTaskIdRejected ==
    /\ ev.op = "purchaseProduct.created"
    /\ ev.resp = "noTaskId"
    /\ agent.userHandle # ""
    /\ outcome.state = "rejected"

\* C14: notifications are best effort.  A segment of purchaseProduct in which
\* an update could not be delivered goes on exactly as the answer it handled
\* dictates: an accepted creation starts the polling, every turn of the loop
\* makes its one status request, a completed task resolves the call, a
\* non-terminal or unreadable answer leads to the next turn (or to the
\* timeout), and the error of a rejected call is the flow's own, never the
\* transport's.
C14_DeliveryNeverAltersFlow ==
    [][(\E x \in Effects(ev') : x.kind = "update" /\ ~x.ok) =>
        /\ ev'.op = "purchaseProduct" =>
              /\ privateKey = ""
              /\ outcome'.error = "WALLET_PRIVATE_KEY not found in environment variables"
        /\ ev'.op = "purchaseProduct.created" =>
              IF ev'.resp = "ok"
              THEN agent'.pc = "poll" /\ outcome' = outcome /\ ev'.result = "pending"
              ELSE /\ outcome'.state = "rejected"
                   /\ outcome'.error \in {"Payment/Task failed",
                                          "No task_id returned from service",
                                          "fetch failed"}
        /\ ev'.op = "pollTaskStatus" =>
              /\ requests' = requests + 1
              /\ agent'.lastProgressCount >= agent.lastProgressCount
              /\ ev'.resp = "completed" =>
                    /\ agent'.pc = "done"
                    /\ outcome'.state = "resolved"
              /\ ev'.resp \in {"nonTerminal", "noPayload"} =>
                    \/ /\ agent'.pc = "poll"
                       /\ agent'.i = agent.i + 1
                       /\ outcome' = outcome
                    \/ /\ agent.i + 1 = maxAttempts
                       /\ outcome'.state = "rejected"
                       /\ outcome'.error = "Task timed out"
              /\ outcome'.state = "rejected" =>
                    outcome'.error \in {"Task timed out"} \cup
                        {m \in ErrorMessages \cup {"Task failed"} : Rethrown(m)}]_vars

C14_ResolvedThoughUndelivered ==
    /\ ev.op = "pollTaskStatus"
    /\ ev.resp = "completed"
    /\ \E x \in Effects(ev) : x.kind = "update" /\ ~x.ok
    /\ agent.lastProgressCount > 0
    /\ outcome.state = "resolved"

\* C15: every purchase failure that matters (the task could not be created,
\* the task reported failed or error, or the polling timed out) rejects the
\* call and, when a userHandle was given, sends it a failure update; a
\* transient poll error that the loop rides out sends the user nothing.  (The
\* statement of the claim; the code breaks it for a failed task whose error
\* message lacks the text 'Task failed'.)
C15_FailuresNotified ==
    LET failed ==
            \/ ev.op = "purchaseProduct.created" /\ ev.resp # "ok"
            \/ ev.op = "pollTaskStatus" /\ ev.resp = "failed"
            \/ ev.op = "pollTaskStatus" /\ ev.resp # "completed" /\ requests = maxAttempts
    IN  /\ failed =>
              /\ outcome.state = "rejected"
              /\ ev.result = "rejected"
              /\ agent.userHandle # "" =>
                    \E x \in Effects(ev) :
                        /\ x.kind = "update"
                        /\ x.to = agent.userHandle
                        /\ x.arg = << "Purchase failed: " \o outcome.error >>
        /\ (ev.op = "pollTaskStatus" /\ ev.resp = "noPayload" /\ agent.pc = "poll") =>
              ev.effects = << >>

\* C16: stopPolling halts the loop and is safe when the loop is not running:
\* it returns with the loop not running and no timer left, it changes nothing
\* when the loop was not running, and an invocation of checkSessions begins
\* only while the loop is running.
C16_StopPollingHalts ==
    /\ [][ev'.op = "stopPolling" =>
            /\ ev'.result = "resolved"
            /\ ~isPolling'
            /\ pollInterval' = NoTimer
            /\ timers' = {}
            /\ ~isPolling => UNCHANGED <<isPolling, pollInterval, timers>>
            /\ UNCHANGED <<activeSessions, ticks>>]_vars
    /\ [][ev'.op = "checkSessions" => isPolling /\ pollInterval \in timers]_vars

C16_StoppedWhenNotRunning ==
    /\ ev.op = "stopPolling"
    /\ ev.resp = "notRunning"
    /\ ~isPolling
    /\ timers = {}
    /\ DOMAIN activeSessions # {}

\* C17: on a threshold crossing for session S the segment notifies
\* S.userHandle (naming the price and the threshold), then dispatches
\* purchaseProduct with exactly (S.productUrl, S.size, S.userHandle), then
\* issues the upstream stop call, whether or not the alert was delivered; S
\* is still registered then and is removed when the stop call is answered.
\* The arguments are those of one registration, S's own.
C17_CrossingOrder ==
    /\ [][(ev'.op = "checkSessions.status" /\ ev'.resp = "below") =>
            LET fx == ev'.effects
                sid == ev'.sid
            IN  /\ Len(fx) = 3
                /\ fx[1].kind = "notify" /\ fx[1].sid = sid
                /\ fx[2].kind = "dispatch" /\ fx[2].sid = sid
                /\ fx[3].kind = "stopPost" /\ fx[3].sid = sid
                /\ \E S \in Requests :
                      /\ sid \in DOMAIN activeSessions => S = activeSessions[sid]
                      /\ fx[1].to = S.userHandle
                      /\ fx[1].arg = <<S.symbol, FeedPrice, S.threshold.repr>>
                      /\ fx[2].arg = <<S.productUrl, S.size, S.userHandle>>
                /\ activeSessions' = activeSessions
                /\ sid \in dispatched'
                /\ \E tk \in BagToSet(ticks') : tk.pc = "stop" /\ tk.sid = sid]_vars
    /\ [][ev'.op = "checkSessions.stopped" =>
            /\ ev'.sid \in dispatched
            /\ ev'.sid \notin DOMAIN activeSessions']_vars
    /\ [](\A tk \in BagToSet(ticks) :
            tk.sid \in DOMAIN activeSessions => tk.data = activeSessions[tk.sid])

C17_SecondSessionCrossed ==
    /\ ev.op = "checkSessions.status"
    /\ ev.resp = "below"
    /\ ev.sid = 2
    /\ ~ev.effects[1].ok
    /\ DOMAIN activeSessions = {1, 2}
    /\ activeSessions[1] # activeSessions[2]

C19_TransientLeavesSession ==
    /\ [][(ev'.op = "checkSessions.status" /\ ev'.resp \in {"httpError", "noBody"}) =>
            /\ activeSessions' = activeSessions
            /\ dispatched' = dispatched
            /\ ev'.effects = << >>
            /\ UNCHANGED <<isPolling, pollInterval, timers>>]_vars
    /\ [][ev'.op = "checkSessions" =>
            /\ ev'.sid = NextSession(activeSessions, NoSession)
            /\ ev'.sid # NoSession =>
                  \E tk \in BagToSet(ticks') :
                      /\ tk.pc = "get" /\ tk.sid = ev'.sid
                      /\ CopiesIn(tk, ticks') > CopiesIn(tk, ticks)]_vars

C19_StillRegisteredAfterFailure ==
    /\ ev.op = "checkSessions.status"
    /\ ev.resp = "httpError"
    /\ ev.result = "resolved"
    /\ ev.sid \in DOMAIN activeSessions
    /\ ev.sid \notin dispatched

\* C20 (as stated): an invocation of checkSessions queries only sessions that
\* were registered when it began.
C20_SnapshotOnly ==
    \A tk \in BagToSet(ticks) : tk.sid <= tk.known

\* C20 (amended): an invocation iterates the live Map: after each session it
\* goes on to the next entry the Map then holds, whether that entry was
\* registered before the invocation began or during it, and it ends when no
\* entry is left.
C20_LiveIteration ==
    [][(\/ ev'.op = "checkSessions.status" /\ ev'.resp # "below"
        \/ ev'.op = "checkSessions.stopped") =>
          /\ WentOnAfter(ev'.sid)
          /\ NextSession(activeSessions', ev'.sid) = NoSession => ev'.result = "resolved"]_vars

C20_LateSessionQueried ==
    \E tk \in BagToSet(ticks) : tk.pc = "get" /\ tk.sid > tk.known

\* C21: purchase execution is decoupled from the polling loop.  The segment
\* that dispatches purchaseProduct goes straight on to the stop call, the
\* answer of the stop call lets the invocation go on with the remaining
\* sessions, and the settlement of a purchase, a rejection included, touches
\* neither the invocations in flight nor the timer; no segment of
\* checkSessions rejects.
C21_PurchaseDecoupled ==
    /\ [][("dispatch" \in EffectKinds(ev')) =>
            /\ ev'.effects[Len(ev'.effects)].kind = "stopPost"
            /\ ev'.result = "pending"
            /\ \E tk \in BagToSet(ticks') : tk.pc = "stop" /\ tk.sid = ev'.sid]_vars
    /\ [][ev'.op = "checkSessions.stopped" =>
            /\ WentOnAfter(ev'.sid)
            /\ ev'.result # "rejected"]_vars
    /\ [][ev'.op = "purchaseProduct.settled" =>
            UNCHANGED <<activeSessions, isPolling, pollInterval, timers, ticks,
                        dispatched, nextId, pendingStarts>>]_vars
    /\ [](ev.op \in {"checkSessions", "checkSessions.status", "checkSessions.stopped"}
            => ev.result # "rejected")

\* C21 witness: a purchase was rejected while an invocation is checking a
\* later session and the timer is alive.
C21_RejectedWhileChecking ==
    /\ ev.op = "purchaseProduct.settled"
    /\ ev.result = "rejected"
    /\ \E tk \in BagToSet(ticks) : tk.pc = "get" /\ tk.sid > ev.sid
    /\ isPolling /\ pollInterval \in timers

\* The sessions that were registered and have been removed since.
Removed == (1..nextId) \ DOMAIN activeSessions

\* C23: a session's life is one-way.  A removed session never comes back into
\* activeSessions, and a query is only ever issued for a session that is in
\* activeSessions at that moment, so an invocation that begins after the
\* removal never queries, notifies or dispatches for it.
C23_RemovalIsFinal ==
    /\ [][Removed \subseteq Removed']_vars
    /\ [][\A tk \in BagToSet(ticks') :
            (tk.pc = "get" /\ CopiesIn(tk, ticks') > CopiesIn(tk, ticks))
                => tk.sid \in DOMAIN activeSessions']_vars
    /\ [][ev'.op = "checkSessions" => ev'.sid \notin Removed]_vars
    /\ [][\A x \in Effects(ev') :
            x.kind \in {"notify", "dispatch"} =>
                \E tk \in BagToSet(ticks) : tk.pc = "get" /\ tk.sid = x.sid]_vars

\* C23 witness: session 1 is gone and an invocation that began afterwards is
\* querying session 2 as its first session.
C23_TickAfterRemoval ==
    /\ ev.op = "checkSessions"
    /\ ev.sid = 2
    /\ Removed = {1}

\* C24: sessions are removed only by the polling loop.  A successful
\* startMonitoring adds exactly one new entry and leaves the others as they
\* were; a failed one, startPolling and stopPolling leave activeSessions
\* unchanged; an entry never changes while it is registered; and the registry
\* loses an entry only in a segment of checkSessions.
C24_AppendOnlyRegistration ==
    /\ [][(ev'.op = "startMonitoring.done" /\ ev'.result = "resolved") =>
            /\ ev'.sid \notin DOMAIN activeSessions
            /\ DOMAIN activeSessions' = DOMAIN activeSessions \cup {ev'.sid}
            /\ activeSessions'[ev'.sid] \in Requests]_vars
    /\ [][(\/ ev'.op \in {"startMonitoring", "startPolling", "stopPolling"}
           \/ ev'.op = "startMonitoring.done" /\ ev'.result = "rejected")
            => activeSessions' = activeSessions]_vars
    /\ [][\A s \in DOMAIN activeSessions \cap DOMAIN activeSessions' :
            activeSessions'[s] = activeSessions[s]]_vars
    /\ [][~(DOMAIN activeSessions \subseteq DOMAIN activeSessions') =>
            ev'.op \in {"checkSessions.status", "checkSessions.stopped"}]_vars

\* C24 witness: a second session was registered next to the first.
C24_SecondRegistered ==
    /\ ev.op = "startMonitoring.done"
    /\ ev.result = "resolved"
    /\ DOMAIN activeSessions = {1, 2}

\* The texts of the three rules, in priority order.
RuleTexts ==
    << "Found the item! Adding it to cart...",
       "Heading to checkout now...",
       "Almost there, submitting the order..." >>

\* The rules a step message matches, by their place in the priority order.
Matching(message) ==
    LET m == ToLowerCase(message)
    IN  { k \in 1..Len(RuleTexts) :
            \/ k = 1 /\ Includes(m, "adding") /\ Includes(m, "cart")
            \/ k = 2 /\ Includes(m, "checkout")
            \/ k = 3 /\ Includes(m, "submitting") }

\* C22: for a batch of new progress steps, each step that matches a rule
\* triggers exactly one notification, that of the matching rule highest in the
\* priority order, the notifications come in step order, a step that matches
\* no rule triggers none, and nothing is sent without a userHandle.
C22_FirstMatchingRule ==
    ev.op = "forEach" =>
        LET steps == ev.resp
            notified == {k \in 1..Len(steps) : Matching(steps[k]) # {}}
            nth(j) == CHOOSE k \in notified :
                          Cardinality({i \in notified : i <= k}) = j
            first(k) == CHOOSE r \in Matching(steps[k]) :
                          \A q \in Matching(steps[k]) : r <= q
        IN  IF agent.userHandle = "" THEN ev.effects = << >>
            ELSE /\ Len(ev.effects) = Cardinality(notified)
                 /\ \A j \in 1..Len(ev.effects) :
                       /\ ev.effects[j].kind = "update"
                       /\ ev.effects[j].to = agent.userHandle
                       /\ ev.effects[j].arg = << RuleTexts[first(nth(j))] >>

\* C22 witness: a step that matches two rules, after a step that matched
\* another rule, announced to a user.
C22_TwoRulesMatched ==
    /\ ev.op = "forEach"
    /\ agent.userHandle # ""
    /\ Len(ev.resp) = 2
    /\ Matching(ev.resp[1]) = {3}
    /\ Matching(ev.resp[2]) = {1, 2}
    /\ Len(ev.effects) = 2

\* C25 (as stated): every recipient a tool uses for a message is the handle of
\* that message, never another message's handle and never 'unknown'.
C25_RecipientIsSender ==
    [][ev'.op = "tool" =>
         \A k \in DOMAIN ev'.effects :
             ev'.effects[k].to = chats[ev'.sid].handle]_vars

\* A text with no character other than white space.
Blank(text) == \A k \in DOMAIN text : IsSpace(text[k])

IsPrefix(p, q) == Len(p) <= Len(q) /\ SubSeq(q, 1, Len(p)) = p

\* C26: the text response is auto-sent to the sender, one message per
\* non-empty trimmed line in the original order, exactly when neither
\* skipResponse nor waitForMoreInput was called and the text is not blank; when
\* either tool was called nothing is auto-sent.  (Lines go out one at a time:
\* what has been sent is always a prefix of the lines, and the whole list once
\* the invocation has returned without a failed send.)
C26_AutoSendRule ==
    /\ \A m \in 1..MaxMessages :
         LET c == chats[m]
             silenced == c.calls \cap {"skipResponse", "waitForMoreInput"} # {}
         IN  /\ silenced => c.sent = << >> /\ c.pc # "sending"
             /\ IsPrefix(c.sent, AutoSendLines(c.text))
             /\ c.pc = "sending" => c.sent \o c.pending = AutoSendLines(c.text)
             /\ (c.pc = "done" /\ ~c.threw) =>
                   c.sent = IF silenced \/ Blank(c.text) THEN << >>
                            ELSE AutoSendLines(c.text)
             /\ \A k \in DOMAIN c.sent :
                   /\ c.sent[k] # << >>
                   /\ \A j \in DOMAIN c.sent[k] : c.sent[k][j] # "\n"
                   /\ ~IsSpace(c.sent[k][1]) /\ ~IsSpace(c.sent[k][Len(c.sent[k])])
    /\ ev.op = "autoSend" =>
         \A k \in DOMAIN ev.effects : ev.effects[k].to = chats[ev.sid].handle

\* A text of two lines around white space was sent as two messages.
C26_TwoLinesSent ==
    /\ chats[1].pc = "done"
    /\ ~chats[1].threw
    /\ chats[1].calls = {"sendMessage"}
    /\ Len(chats[1].text) = 4
    /\ Len(AutoSendLines(chats[1].text)) = 2
    /\ chats[1].sent = AutoSendLines(chats[1].text)

\* C27: handleMessage never passes a message to the AI handler when it is
\* fromMe, has null, undefined or blank text, comes from a blacklisted handle
\* (whitelisted or not) or from a handle outside a configured whitelist, or
\* when AI is disabled or unavailable; whatever setWhitelist, setBlacklist
\* and setAIEnabled calls came before.
C27_FilteredNeverPassed ==
    (ev.op = "handleMessage" /\ ev.result = "passed") =>
        /\ ~ev.resp.fromMe
        /\ ev.resp.text.kind = "string"
        /\ \E k \in DOMAIN ev.resp.text.chars : ~IsSpace(ev.resp.text.chars[k])
        /\ ~listener.blacklist.isNull
        /\ ev.resp.handle \notin listener.blacklist.items
        /\ listener.whitelist.isNull \/ ev.resp.handle \in listener.whitelist.items
        /\ listener.enabled
        /\ listener.aiAvailable

\* With AI enabled, a message with text from a handle on both lists was
\* skipped.
C27_BlacklistedWhitelistedSkipped ==
    /\ ev.op = "handleMessage"
    /\ ev.result = "skipped"
    /\ ~ev.resp.fromMe
    /\ ev.resp.text = Str(<<"a">>)
    /\ listener.enabled /\ listener.aiAvailable
    /\ ~listener.whitelist.isNull /\ ev.resp.handle \in listener.whitelist.items
    /\ ev.resp.handle \in listener.blacklist.items

\* C28 (as stated): when addMessage calls for one handle interleave, every
\* message is present in the conversation a later getConversation returns.
C28_NoLostUpdate ==
    addCalls = {} =>
        \A k \in DOMAIN added :
            \E j \in DOMAIN conversations[added[k]] :
                conversations[added[k]][j] = k

\* C29 (as stated): bookUberRide returns success: true only if a status poll
\* observed 'completed' or 'success'; a poll that reports 'failed' (with any
\* error_message) and the exhaustion of the 60 polls both end it with
\* success: false.
C29_SuccessOnlyWhenCompleted ==
    /\ ride.success = "true" => ride.observed
    /\ (ev.op = "uberPoll" /\ ev.resp.kind = "data" /\
        EffectiveStatus(ev.resp) = "failed") => ride.success = "false"
    /\ (ride.pc = "done" /\ ride.i = uberMaxAttempts) => ride.success = "false"

\* The calls made so far for a handle, oldest first.
AddedFor(h) ==
    LET forHandle(k) == added[k] = h
    IN  SelectSeq([k \in DOMAIN added |-> k], forHandle)

\* The last n elements of a sequence (all of it when it is shorter).
LastN(q, n) == IF Len(q) > n THEN SubSeq(q, Len(q) - n + 1, Len(q)) ELSE q

====
